---- MODULE Spec2Model ----
(***************************************************************************)
(* A model of the OpenMind local executor (src/executor): the signed       *)
(* webhook POST /execute, the websocket conversation /ws with its pending  *)
(* transfer slot and confirmed batches, and the chain backend client.      *)
(*                                                                         *)
(* Text is modelled as sequences of tokens (an utterance) or as strings    *)
(* that name a JSON document; Chinese words are written in pinyin:         *)
(*   zhuan = U+8F6C, zhuanzhang = U+8F6C U+8D26, ci = U+6B21,              *)
(*   queren/queding/shi = the confirm words, quxiao/suanle/buzhuanle/      *)
(*   chexiao = the cancel words, yuansheng/zhubi = the native-coin words.  *)
(***************************************************************************)
EXTENDS Integers, Sequences, FiniteSets, TLC

VARIABLES
    secret,     \* EXECUTOR_SHARED_SECRET ("" when unset)
    gateway,    \* EXECUTOR_ENABLE_CHAIN_FROM_GATEWAY
    omKey,      \* whether get_openmind_api_key() returns a key
    localToken, \* EXECUTOR_CHAIN_LOCAL_TOKEN ("" when unset)
    wsPc,       \* per session: where ws_conversation stands
    pending,    \* per session: pending_chain_payload
    inbox,      \* per session: messages sent by the client, not yet received
    connected,  \* per session: the client has not disconnected
    nsent,      \* per session: messages the client has sent
    wsLoc,      \* per session: locals of the confirm branch (base, times, i, results)
    out,        \* per session: events sent since the last received message
    conv,       \* per session: the conversation so far (state, last recognized intent)
    hook,       \* per request: where execute() stands, its inputs and locals
    inflight,   \* per caller: payloads of chain_execute calls awaiting the backend
    ncalls,     \* per caller: chain_execute calls started by the current message/request
    faults      \* backend calls that did not answer 2xx JSON

config == <<secret, gateway, omKey, localToken>>

vars == <<secret, gateway, omKey, localToken, wsPc, pending, inbox, connected, nsent,
          wsLoc, out, conv, hook, inflight, ncalls, faults>>

wsVars == <<wsPc, pending, inbox, connected, nsent, wsLoc, out, conv>>

----------------------------------------------------------------------------
(* Bounds of the model *)

MaxMsgs == 3
MaxPairMsgs == 2
MaxInbox == 1
MaxFaults == 1

(* Program constants *)

MAX_TIMES == 50
USDC_DECIMALS == 6
DEFAULT_CHAIN_ID == 5042002

Sessions == {"s1", "s2"}
Requests == {"r1"}
Directs == {"d1"}
Posts == Requests \cup Directs
Callers == Sessions \cup Posts

Max(a, b) == IF a >= b THEN a ELSE b
Min(a, b) == IF a <= b THEN a ELSE b

----------------------------------------------------------------------------
(* JSON values, as Python holds them after json.loads *)

JNull == [t |-> "null"]
JBool(b) == [t |-> "bool", b |-> b]
JNum(n) == [t |-> "num", n |-> n]
JStr(s) == [t |-> "str", s |-> s]
JList(l) == [t |-> "list", l |-> l]
JObj(o) == [t |-> "obj", o |-> o]

EmptyDict == [k \in {} |-> JNull]

IsDict(v) == v.t = "obj"
IsList(v) == v.t = "list"
IsStr(v) == v.t = "str"

\* dict.get(k): the value, or None when the key is absent
Get(v, k) == IF k \in DOMAIN v.o THEN v.o[k] ELSE JNull

\* dict.get(k, default)
GetOr(v, k, default) == IF k \in DOMAIN v.o THEN v.o[k] ELSE default

\* dict(v) followed by pop(k, None)
Pop(v, k) == JObj([x \in (DOMAIN v.o) \ {k} |-> v.o[x]])

\* Python truth value of a JSON value
Truthy(v) ==
    CASE v.t = "null" -> FALSE
      [] v.t = "bool" -> v.b
      [] v.t = "num" -> v.n # 0
      [] v.t = "str" -> v.s # ""
      [] v.t = "list" -> v.l # <<>>
      [] v.t = "obj" -> DOMAIN v.o # {}

\* The decimal strings the model uses, with their integer value
IntStrings == {"0", "1", "2", "3", "50", "51", "100", "9999"}

IntOfString(s) ==
    CASE s = "0" -> 0
      [] s = "1" -> 1
      [] s = "2" -> 2
      [] s = "3" -> 3
      [] s = "50" -> 50
      [] s = "51" -> 51
      [] s = "100" -> 100
      [] s = "9999" -> 9999

\* int(v): [ok, n], ok FALSE when Python raises ValueError or TypeError
PyInt(v) ==
    CASE v.t = "num" -> [ok |-> TRUE, n |-> v.n]
      [] v.t = "bool" -> [ok |-> TRUE, n |-> IF v.b THEN 1 ELSE 0]
      [] v.t = "str" /\ v.s \in IntStrings -> [ok |-> TRUE, n |-> IntOfString(v.s)]
      [] OTHER -> [ok |-> FALSE, n |-> 0]

\* int(payload.get("times") or 1)
TimesOf(payload) ==
    LET v == Get(payload, "times")
    IN  IF Truthy(v) THEN PyInt(v) ELSE [ok |-> TRUE, n |-> 1]

ClampLoose(times) == Max(1, times)

\* max(1, min(times, 50))
Clamp(times) == Max(1, Min(times, MAX_TIMES))

----------------------------------------------------------------------------
(* _parse_cn_transfer over token sequences *)

AddrTokens == {"0xA1", "0xB2"}
NumeralTokens == {"0", "1", "2", "3", "0.5", "50", "51", "100", "9999", "12345"}
\* numerals of one to four digits and nothing else
ShortIntTokens == {"0", "1", "2", "3", "50", "51", "100", "9999"}
TimesVerbTokens == {"zhuan", "zhuanzhang"}
UsdcTokens == {"USDC", "usdc"}
EthTokens == {"ETH", "eth", "yuansheng", "zhubi"}

\* str.strip()
RECURSIVE LStrip(_)
LStrip(toks) ==
    IF toks # <<>> /\ Head(toks) = " " THEN LStrip(Tail(toks)) ELSE toks

RECURSIVE RStrip(_)
RStrip(toks) ==
    IF toks # <<>> /\ toks[Len(toks)] = " "
    THEN RStrip(SubSeq(toks, 1, Len(toks) - 1))
    ELSE toks

Strip(toks) == RStrip(LStrip(toks))

\* the least index from i on that holds no space (Len + 1 when none)
RECURSIVE SkipSpaces(_, _)
SkipSpaces(toks, i) ==
    IF i <= Len(toks) /\ toks[i] = " " THEN SkipSpaces(toks, i + 1) ELSE i

\* the least index whose token is in S, 0 when none: re.search
FirstIn(toks, S) ==
    IF \E i \in 1..Len(toks) : toks[i] \in S
    THEN CHOOSE i \in 1..Len(toks) :
            toks[i] \in S /\ \A j \in 1..(i - 1) : toks[j] \notin S
    ELSE 0

\* _TIMES_RE matched with its verb at index i: the index of the digits, else 0
TimesMatchAt(toks, i) ==
    LET j == SkipSpaces(toks, i + 1)
        k == SkipSpaces(toks, j + 1)
    IN  IF /\ toks[i] \in TimesVerbTokens
           /\ j <= Len(toks) /\ toks[j] \in ShortIntTokens
           /\ k <= Len(toks) /\ toks[k] = "ci"
        THEN j ELSE 0

\* _TIMES_RE.search(t): the digits of the leftmost match, "" when none
TimesSearch(toks) ==
    LET hits == {i \in 1..Len(toks) : TimesMatchAt(toks, i) # 0}
    IN  IF hits = {} THEN ""
        ELSE LET i == CHOOSE x \in hits : \A y \in hits : x <= y
             IN  toks[TimesMatchAt(toks, i)]

\* _AMOUNT_RE.search(t): the first run of digits, which an address ("0x...")
\* also starts with; "" when the text holds no digit
AmountSearch(toks) ==
    LET i == FirstIn(toks, NumeralTokens \cup AddrTokens)
    IN  IF i = 0 THEN ""
        ELSE IF toks[i] \in AddrTokens THEN "0" ELSE toks[i]

DEFAULT_RPC_URL == "https://rpc.testnet.arc.network"
DEFAULT_USDC_ADDRESS == "0x3600000000000000000000000000000000000000"

\* lines 62-69: times = max(1, int(digits)), 1 without a match
ParseTimes(digits) == IF digits = "" THEN 1 ELSE Max(1, IntOfString(digits))

\* _parse_cn_transfer(text): None (JNull) or a dict
ParseCnTransfer(text) ==
    LET t == Strip(text)
        a == FirstIn(t, AddrTokens)
        amount == AmountSearch(t)
        times == ParseTimes(TimesSearch(t))
    IN  IF t = <<>> THEN JNull
        ELSE IF a = 0 THEN JNull
        ELSE IF amount = "" THEN JNull
        ELSE IF \E i \in 1..Len(t) : t[i] \in UsdcTokens
        THEN JObj([type |-> JStr("transfer_erc20"),
                   rpc_url |-> JStr(DEFAULT_RPC_URL),
                   expected_chain_id |-> JNum(DEFAULT_CHAIN_ID),
                   token_address |-> JStr(DEFAULT_USDC_ADDRESS),
                   to |-> JStr(t[a]),
                   amount |-> JStr(amount),
                   decimals |-> JNum(USDC_DECIMALS),
                   times |-> JNum(times)])
        ELSE IF \E i \in 1..Len(t) : t[i] \in EthTokens
        THEN JObj([type |-> JStr("transfer_native"),
                   rpc_url |-> JStr(DEFAULT_RPC_URL),
                   expected_chain_id |-> JNum(DEFAULT_CHAIN_ID),
                   to |-> JStr(t[a]),
                   amount_eth |-> JStr(amount),
                   times |-> JNum(times)])
        ELSE JObj(("_needs_token" :> JBool(TRUE)) @@ ("to" :> JStr(t[a]))
                  @@ ("amount" :> JStr(amount)))

----------------------------------------------------------------------------
(* JSON texts: the documents the model's clients send, json.loads by lookup *)

DocTests == "{\"type\":\"tests\"}"
DocRunTests == "{\"type\":\"run_tests\"}"
DocChat == "{\"type\":\"chat\",\"text\":\"hi\"}"
DocChatBlank == "{\"type\":\"chat\",\"text\":\" \"}"
DocWsChain == "{\"type\":\"chain_execute\",\"payload\":{\"op\":\"ping\",\"times\":2}}"
DocWsChainBad == "{\"type\":\"chain_execute\",\"payload\":\"ping\"}"
DocNumber == "7"

PingPayload(times) == JObj([op |-> JStr("ping"), times |-> times])

WsDocs == {DocTests, DocRunTests, DocChat, DocChatBlank, DocWsChain, DocWsChainBad,
           DocNumber}

WsDocValue(s) ==
    CASE s = DocTests -> JObj([type |-> JStr("tests")])
      [] s = DocRunTests -> JObj([type |-> JStr("run_tests")])
      [] s = DocChat -> JObj([type |-> JStr("chat"), text |-> JStr("hi")])
      [] s = DocChatBlank -> JObj([type |-> JStr("chat"), text |-> JStr(" ")])
      [] s = DocWsChain ->
            JObj([type |-> JStr("chain_execute"), payload |-> PingPayload(JNum(2))])
      [] s = DocWsChainBad ->
            JObj([type |-> JStr("chain_execute"), payload |-> JStr("ping")])
      [] s = DocNumber -> JNum(7)

\* json.loads(msg) of a websocket message: [ok, v], ok FALSE when it raises
WsJsonLoads(msg) ==
    IF Len(msg) = 1 /\ msg[1] \in WsDocs
    THEN [ok |-> TRUE, v |-> WsDocValue(msg[1])]
    ELSE [ok |-> FALSE, v |-> JNull]

\* obj and isinstance(obj, dict) and obj.get("type") == ty
IsWsJson(msg, ty) ==
    LET r == WsJsonLoads(msg)
    IN  /\ r.ok
        /\ Truthy(r.v)
        /\ IsDict(r.v)
        /\ IsStr(Get(r.v, "type"))
        /\ Get(r.v, "type").s = ty

WsJsonTypes == {"tests", "run_tests", "chain_execute", "chat"}

\* the message reaches line 389: none of the JSON branches took it
IsPlain(msg) == \A ty \in WsJsonTypes : ~IsWsJson(msg, ty)

CancelWords == {"quxiao", "suanle", "buzhuanle", "chexiao"}
ConfirmWords == {"queren", "queding", "shi", "yes", "y"}

IsCancel(msg) == IsPlain(msg) /\ Len(Strip(msg)) = 1 /\ Strip(msg)[1] \in CancelWords
IsConfirm(msg) == IsPlain(msg) /\ Len(Strip(msg)) = 1 /\ Strip(msg)[1] \in ConfirmWords

\* the utterances of the model's clients
UtterUsdc == <<"zhuan", " ", "1", " ", "USDC", " ", "dao", " ", "0xA1">>
UtterEthTwice == <<"zhuan", "2", "ci", " ", "0.5", "ETH", "gei", "0xB2">>
UtterNoToken == <<"zhuan", " ", "0.5", " ", "gei", " ", "0xA1">>
UtterHello == <<"nihao">>
UtterBlank == <<" ">>
UtterUsdc100 == <<"0xA1", "usdc", "3", "zhuanzhang", " ", "100", " ", "ci">>
UtterUsdc9999 == <<"zhuan", "9999", "ci", "usdc", "0xB2">>
UtterEthZero == <<"zhuan", " ", "0", "ci", " ", "1", "eth", "0xB2">>
UtterEth50 == <<"zhuan", "50", "ci", "eth", "0xA1">>
UtterEth51 == <<"zhuan", "51", "ci", "eth", "0xA1">>

WsMessages ==
    { <<"queren">>, <<" ", "y">>, <<"quxiao">>, UtterUsdc, UtterEthTwice, UtterNoToken,
      UtterHello, UtterBlank, <<DocTests>>, <<DocRunTests>>, <<DocChat>>,
      <<DocChatBlank>>, <<DocWsChain>>, <<DocWsChainBad>>, <<DocNumber>> }

TEST_SENTENCES == <<"hello">>

----------------------------------------------------------------------------
(* The chain backend behind chain_execute *)

ROk == [status |-> 200, data |-> "json"]
RHttpError == [status |-> 500, data |-> "json"]
RNonJson == [status |-> 200, data |-> "raw"]

\* what client.post(...) followed by r.json() can hand back (lines 32-37)
BackendResults == {ROk, RHttpError, RNonJson}

\* chain_execute(payload) is entered: the request is on its way
CallStarts(c, payload) ==
    /\ inflight' = [inflight EXCEPT ![c] = Append(@, payload)]
    /\ ncalls' = [ncalls EXCEPT ![c] = @ + 1]

\* the awaited call of caller c returns r
CallReturns(c, r) ==
    /\ inflight[c] # <<>>
    /\ inflight' = [inflight EXCEPT ![c] = Tail(@)]
    /\ IF r = ROk
       THEN faults' = faults
       ELSE faults < MaxFaults /\ faults' = faults + 1

\* client.post raises (connection refused, timeout): chain_execute catches nothing
CallRaises(c) ==
    /\ inflight[c] # <<>>
    /\ inflight' = [inflight EXCEPT ![c] = Tail(@)]
    /\ faults < MaxFaults
    /\ faults' = faults + 1

----------------------------------------------------------------------------
(* ws_conversation: one websocket session *)

SlotShared(s) == "s1"

\* line 302: pending_chain_payload is a local of the call of ws_conversation
\* that serves session s
SlotOf(s) == s


NoLocals == [base |-> JNull, times |-> 0, i |-> 0, results |-> <<>>]

\* The conversation as the client has seen it: "fresh", "held" once an utterance
\* was answered with a confirm prompt, "cancelled" once a held intent was
\* cancelled, "done" once a confirmed batch was reported done; the intent is the
\* last one recognized, replaced when it took the place of another held one.
Fresh == [state |-> "fresh", intent |-> JNull, replaced |-> FALSE]

Msg(s) == Head(inbox[s])

\* ws.receive_text() hands over the next message
Receives(s) ==
    /\ wsPc[s] = "recv"
    /\ inbox[s] # <<>>
    /\ inbox' = [inbox EXCEPT ![s] = Tail(@)]

\* await ws.send_json(...) of events: they are sent, or (the client being gone)
\* the send raises and the handler ends
Sends(s, events, pcAfter) ==
    \/ /\ out' = [out EXCEPT ![s] = events]
       /\ wsPc' = [wsPc EXCEPT ![s] = pcAfter]
    \/ /\ ~connected[s]
       /\ out' = [out EXCEPT ![s] = <<>>]
       /\ wsPc' = [wsPc EXCEPT ![s] = "closed"]

\* a branch that answers and goes back to receive_text (continue)
Answers(s, events) ==
    /\ Sends(s, events, "recv")
    /\ ncalls' = [ncalls EXCEPT ![s] = 0]
    /\ UNCHANGED <<config, connected, nsent, wsLoc, hook, inflight,
                   faults>>

\* lines 321-323
WsTests(s) ==
    /\ Receives(s)
    /\ IsWsJson(Msg(s), "tests")
    /\ Answers(s, <<[type |-> "tests", sentences |-> TEST_SENTENCES]>>)
    /\ UNCHANGED <<pending, conv>>

\* lines 325-331
WsRunTests(s) ==
    /\ Receives(s)
    /\ IsWsJson(Msg(s), "run_tests")
    /\ Answers(s, [i \in 1..Len(TEST_SENTENCES) |->
                        [type |-> "spoken", text |-> TEST_SENTENCES[i]]]
                  \o <<[type |-> "done"]>>)
    /\ UNCHANGED <<pending, conv>>

\* lines 333-343: a chain_execute message goes to the backend as it is
WsChainExecute(s) ==
    /\ Receives(s)
    /\ IsWsJson(Msg(s), "chain_execute")
    /\ LET payload == Get(WsJsonLoads(Msg(s)).v, "payload")
       IN  IF ~IsDict(payload)
           THEN Answers(s, <<[type |-> "error", error |-> "Missing payload"]>>)
           ELSE /\ CallStarts(s, payload)
                /\ wsPc' = [wsPc EXCEPT ![s] = "direct"]
                /\ out' = [out EXCEPT ![s] = <<>>]
                /\ UNCHANGED <<config, connected, nsent, wsLoc,
                               hook, faults>>
    /\ UNCHANGED <<pending, conv>>

\* lines 343-345: the call of a chain_execute message returns
WsDirectReturns(s) ==
    /\ wsPc[s] = "direct"
    /\ \E r \in BackendResults :
          /\ CallReturns(s, r)
          /\ Sends(s, <<[type |-> "chain_result", result |-> r]>>, "recv")
    /\ UNCHANGED <<config, pending, inbox, connected, nsent, wsLoc,
                   conv, hook, ncalls>>

BlankStrings == {"", " "}

\* lines 347-386
WsChat(s) ==
    /\ Receives(s)
    /\ IsWsJson(Msg(s), "chat")
    /\ LET text == Get(WsJsonLoads(Msg(s)).v, "text")
       IN  IF ~Truthy(text) \/ (IsStr(text) /\ text.s \in BlankStrings)
           THEN Answers(s, <<[type |-> "error", error |-> "Missing text"]>>)
           ELSE IF ~omKey
           THEN Answers(s, <<[type |-> "error", error |-> "Chat disabled"]>>)
           ELSE \/ Answers(s, <<[type |-> "openmind_result"],
                                [type |-> "spoken", text |-> "reply"]>>)
                \/ Answers(s, <<[type |-> "openmind_result"]>>)
                \/ \* chat_completions raises
                   /\ wsPc' = [wsPc EXCEPT ![s] = "crashed"]
                   /\ out' = [out EXCEPT ![s] = <<>>]
                   /\ ncalls' = [ncalls EXCEPT ![s] = 0]
                   /\ UNCHANGED <<config, connected, nsent, wsLoc,
                                  hook, inflight, faults>>
    /\ UNCHANGED <<pending, conv>>

\* lines 389-391: nothing but white space
WsBlank(s) ==
    /\ Receives(s)
    /\ IsPlain(Msg(s))
    /\ Strip(Msg(s)) = <<>>
    /\ out' = [out EXCEPT ![s] = <<>>]
    /\ ncalls' = [ncalls EXCEPT ![s] = 0]
    /\ UNCHANGED <<config, wsPc, pending, connected, nsent, wsLoc,
                   conv, hook, inflight, faults>>

PendingAfterCancelKept(p) == p

\* line 395
PendingAfterCancel(p) == JNull

\* lines 394-397
WsCancel(s) ==
    /\ Receives(s)
    /\ IsCancel(Msg(s))
    /\ pending' = [pending EXCEPT ![SlotOf(s)] = PendingAfterCancel(@)]
    /\ conv' = [conv EXCEPT ![s] =
           IF @.state = "held" THEN [@ EXCEPT !.state = "cancelled"] ELSE @]
    /\ Answers(s, <<[type |-> "cancelled"]>>)

ConfirmsAnyText(msg, p) ==
    IsPlain(msg) /\ Strip(msg) # <<>> /\ ~IsCancel(msg) /\ Truthy(p)

\* line 399: text in (...) and pending_chain_payload
Confirms(msg, p) == IsConfirm(msg) /\ Truthy(p)

\* lines 399-413: the confirm branch up to its loop
WsConfirm(s) ==
    /\ Receives(s)
    /\ Confirms(Msg(s), pending[SlotOf(s)])
    /\ LET t == TimesOf(pending[SlotOf(s)])
           times == Clamp(t.n)
       IN  /\ Sends(s, <<[type |-> "info", times |-> times]>>, "loop")
           /\ wsLoc' = [wsLoc EXCEPT ![s] =
                  IF wsPc'[s] = "loop"
                  THEN [base |-> Pop(pending[SlotOf(s)], "times"), times |-> times,
                        i |-> 0, results |-> <<>>]
                  ELSE @]
    /\ ncalls' = [ncalls EXCEPT ![s] = 0]
    /\ UNCHANGED <<config, pending, connected, nsent, conv, hook,
                   inflight, faults>>

\* the message is an utterance for _parse_cn_transfer (line 425)
IsUtterance(msg, p) ==
    /\ IsPlain(msg)
    /\ Strip(msg) # <<>>
    /\ ~IsCancel(msg)
    /\ ~Confirms(msg, p)

NeedsToken(parsed) == IsDict(parsed) /\ Truthy(Get(parsed, "_needs_token"))

TransferTypes == {"transfer_erc20", "transfer_native"}

\* parsed and parsed.get("type") in ("transfer_erc20", "transfer_native")
IsTransfer(parsed) ==
    /\ IsDict(parsed)
    /\ IsStr(Get(parsed, "type"))
    /\ Get(parsed, "type").s \in TransferTypes

PendingAfterNeedMoreStored(p, parsed) == parsed

\* lines 426-435 assign nothing to pending_chain_payload
PendingAfterNeedMore(p, parsed) == p

\* lines 426-435
WsNeedMore(s) ==
    /\ Receives(s)
    /\ IsUtterance(Msg(s), pending[SlotOf(s)])
    /\ LET parsed == ParseCnTransfer(Msg(s))
       IN  /\ NeedsToken(parsed)
           /\ pending' = [pending EXCEPT ![SlotOf(s)] = PendingAfterNeedMore(@, parsed)]
           /\ Answers(s, <<[type |-> "need_more", to |-> Get(parsed, "to"),
                            amount |-> Get(parsed, "amount")]>>)
    /\ UNCHANGED conv

PendingAfterIntentFirst(p, parsed) == IF p = JNull THEN parsed ELSE p

\* line 438
PendingAfterIntent(p, parsed) == parsed

\* lines 437-457
WsIntent(s) ==
    /\ Receives(s)
    /\ IsUtterance(Msg(s), pending[SlotOf(s)])
    /\ LET parsed == ParseCnTransfer(Msg(s))
       IN  /\ ~NeedsToken(parsed)
           /\ IsTransfer(parsed)
           /\ pending' = [pending EXCEPT ![SlotOf(s)] = PendingAfterIntent(@, parsed)]
           /\ Answers(s, <<[type |-> "confirm",
                            to |-> Get(parsed, "to"),
                            amount |-> IF Get(parsed, "type").s = "transfer_erc20"
                                       THEN Get(parsed, "amount")
                                       ELSE Get(parsed, "amount_eth"),
                            times |-> TimesOf(parsed).n,
                            payload |-> parsed]>>)
    /\ conv' = [conv EXCEPT ![s] =
           [state |-> "held", intent |-> ParseCnTransfer(Msg(s)),
            replaced |-> @.state = "held" /\ @.intent # ParseCnTransfer(Msg(s))]]

\* lines 459-461
WsSpeak(s) ==
    /\ Receives(s)
    /\ IsUtterance(Msg(s), pending[SlotOf(s)])
    /\ LET parsed == ParseCnTransfer(Msg(s))
       IN  /\ ~NeedsToken(parsed)
           /\ ~IsTransfer(parsed)
    /\ Answers(s, <<[type |-> "spoken", text |-> Strip(Msg(s))]>>)
    /\ UNCHANGED <<pending, conv>>


PcAfterStartDetached == "loop"

PendingAfterBatchKept(p) == p

\* line 421
PendingAfterBatch(p) == JNull

\* line 417: r = await chain_execute(base) suspends the loop until the call is over
PcAfterStart == "call"

ProgressEventZeroBased(i, total) == [type |-> "progress", index |-> i, total |-> total]

\* line 416: the progress event of the item after i finished ones
ProgressEvent(i, total) == [type |-> "progress", index |-> i + 1, total |-> total]

\* lines 415-417 (one more item) and 421-423 (the loop is over)
WsLoop(s) ==
    /\ wsPc[s] = "loop"
    /\ LET l == wsLoc[s]
       IN  IF l.i < l.times
           THEN /\ \/ /\ wsPc' = [wsPc EXCEPT ![s] = PcAfterStart]
                      /\ out' = [out EXCEPT ![s] = Append(@, ProgressEvent(l.i, l.times))]
                      /\ CallStarts(s, l.base)
                   \/ /\ ~connected[s]
                      /\ wsPc' = [wsPc EXCEPT ![s] = "closed"]
                      /\ UNCHANGED <<out, inflight, ncalls>>
                /\ UNCHANGED <<pending, wsLoc, conv>>
           ELSE /\ pending' = [pending EXCEPT ![SlotOf(s)] = PendingAfterBatch(@)]
                /\ wsLoc' = [wsLoc EXCEPT ![s] = NoLocals]
                /\ conv' = [conv EXCEPT ![s].state = "done"]
                /\ \/ /\ wsPc' = [wsPc EXCEPT ![s] = "recv"]
                      /\ out' = [out EXCEPT ![s] =
                             Append(@, [type |-> "done", count |-> l.times,
                                        results_count |-> Len(l.results)])]
                   \/ /\ ~connected[s]
                      /\ wsPc' = [wsPc EXCEPT ![s] = "closed"]
                      /\ UNCHANGED out
                /\ UNCHANGED <<inflight, ncalls>>
    /\ UNCHANGED <<config, inbox, connected, nsent, hook, faults>>

\* lines 417-419: the call of item i returns
WsCallReturns(s) ==
    /\ wsPc[s] = "call"
    /\ \E r \in BackendResults :
          /\ CallReturns(s, r)
          /\ wsLoc' = [wsLoc EXCEPT ![s].results = Append(@, r), ![s].i = @ + 1]
          /\ \/ /\ wsPc' = [wsPc EXCEPT ![s] = "loop"]
                /\ out' = [out EXCEPT ![s] =
                       Append(@, [type |-> "chain_result", index |-> wsLoc[s].i + 1,
                                  total |-> wsLoc[s].times, result |-> r])]
             \/ /\ ~connected[s]
                /\ wsPc' = [wsPc EXCEPT ![s] = "closed"]
                /\ UNCHANGED out
    /\ UNCHANGED <<config, pending, inbox, connected, nsent, conv,
                   hook, ncalls>>

\* chain_execute raises inside the session: no handler but WebSocketDisconnect's
WsCallRaises(s) ==
    /\ wsPc[s] \in {"call", "direct"}
    /\ CallRaises(s)
    /\ wsPc' = [wsPc EXCEPT ![s] = "crashed"]
    /\ UNCHANGED <<config, pending, inbox, connected, nsent, wsLoc,
                   out, conv, hook, ncalls>>

\* lines 313 and 462-463: receive_text raises WebSocketDisconnect
WsClosed(s) ==
    /\ wsPc[s] = "recv"
    /\ inbox[s] = <<>>
    /\ ~connected[s]
    /\ wsPc' = [wsPc EXCEPT ![s] = "closed"]
    /\ UNCHANGED <<config, pending, inbox, connected, nsent, wsLoc,
                   out, conv, hook, inflight, ncalls, faults>>

(* The client of a session *)

ClientSends(s, msg, limit) ==
    /\ connected[s]
    /\ nsent[s] < limit
    /\ Len(inbox[s]) < MaxInbox
    /\ inbox' = [inbox EXCEPT ![s] = Append(@, msg)]
    /\ nsent' = [nsent EXCEPT ![s] = @ + 1]
    /\ UNCHANGED <<config, wsPc, pending, connected, wsLoc, out,
                   conv, hook, inflight, ncalls, faults>>

ClientLeaves(s) ==
    /\ connected[s]
    /\ connected' = [connected EXCEPT ![s] = FALSE]
    /\ UNCHANGED <<config, wsPc, pending, inbox, nsent, wsLoc, out,
                   conv, hook, inflight, ncalls, faults>>

WsStep(s) ==
    \/ WsTests(s) \/ WsRunTests(s) \/ WsChainExecute(s) \/ WsDirectReturns(s)
    \/ WsChat(s) \/ WsBlank(s) \/ WsCancel(s) \/ WsConfirm(s) \/ WsNeedMore(s)
    \/ WsIntent(s) \/ WsSpeak(s) \/ WsLoop(s) \/ WsCallReturns(s)
    \/ WsCallRaises(s) \/ WsClosed(s)

----------------------------------------------------------------------------
(* POST /execute: the signed webhook *)

\* a header that was not sent (Header(default=None))
NoHeader == "(none)"

\* not x_om_timestamp / not x_om_signature
HeaderMissing(h) == h = NoHeader \/ h = ""

\* _hmac_sha256_hex(secret, data): a hex digest, one per (secret, data);
\* no key of the model holds ":"
HmacSha256Hex(key, data) == "hmac:" \o key \o ":" \o data

\* _safe_equal(a, b)
SafeEqual(a, b) == a = b

SignedDataBodyOnly(ts, text) == text

\* f"{x_om_timestamp}.{payload_str}"
SignedData(ts, text) == ts \o "." \o text

\* JSON texts of request bodies and of strings inside them
DocPing == "{\"op\":\"ping\"}"
DocPingTimes == "{\"op\":\"ping\",\"times\":2}"
DocContentList == "[{\"type\":\"wallet_sign\",\"value\":\"{\\\"op\\\":\\\"ping\\\"}\"},7]"
DocContentOne == "{\"type\":\"chain_execute\",\"value\":{}}"
DocContentWrapped == "{\"commands\":[{\"type\":\"move\"}]}"

BodyCommands == "{\"openmind_status\":200,\"openmind_response\":{\"commands\":[chain_execute x2, move, wallet_send]}}"
BodyChoices == "{\"openmind_response\":{\"choices\":[{\"message\":{\"content\":DocContentList}}]}}"
BodyBadValues == "{\"openmind_response\":{\"commands\":[chain_execute \"hello\", wallet_sign [1], chain_execute null+payload]}}"
BodyBadTimes == "{\"openmind_response\":{\"commands\":[{\"type\":\"chain_execute\",\"value\":{\"op\":\"ping\",\"times\":\"abc\"}}]}}"
BodyNoResponse == "{\"openmind_status\":200,\"openmind_response\":null}"
BodyList == "[1]"
BodyNotJson == "hello"

Cmd(type, value) == JObj([type |-> JStr(type), value |-> value])

\* bodies with one chain_execute command whose payload asks for a repeat count
TimesLabels == {"absent", "null", "0", "-1", "1", "3", "50", "51", "100"}

TimesBody(label) ==
    "{\"openmind_response\":{\"commands\":[{\"type\":\"chain_execute\",\"value\":{\"op\":\"ping\",\"times\":"
    \o label \o "}}]}}"

TimesBodies == {TimesBody(l) : l \in TimesLabels}

TimesPayload(label) ==
    CASE label = "absent" -> JObj([op |-> JStr("ping")])
      [] label = "null" -> PingPayload(JNull)
      [] label = "-1" -> PingPayload(JNum(-1))
      [] OTHER -> PingPayload(JNum(IntOfString(label)))

\* bodies whose openmind_response has one of the shapes _extract_commands tells
\* apart, and shapes it does not know
DocContentBoth == "{\"type\":\"move\",\"commands\":[{\"type\":\"wallet_send\"}]}"

ShapeLabels ==
    {"both", "commands-mixed", "commands-not-list", "content-list", "content-object",
     "content-wrapped", "content-typed-wrapped", "content-text", "content-number",
     "content-blank", "content-null", "choices-empty", "choices-string",
     "message-string", "list", "string", "number", "empty", "null"}

ShapeBody(label) == "{\"openmind_response\":<" \o label \o ">}"

ShapeBodies == {ShapeBody(l) : l \in ShapeLabels}

MoveCmd == JObj([type |-> JStr("move")])

Choice(content) == JList(<<JObj([message |-> JObj([content |-> content])])>>)

ShapeResponse(label) ==
    CASE label = "both" ->
            JObj([commands |-> JList(<<MoveCmd>>), choices |-> Choice(JStr(DocContentOne))])
      [] label = "commands-mixed" ->
            JObj([commands |-> JList(<<MoveCmd, JNum(7), JObj([type |-> JNum(5)]),
                                       JObj([value |-> JNum(1)])>>)])
      [] label = "commands-not-list" ->
            JObj([commands |-> JStr("x"), choices |-> Choice(JStr(DocContentOne))])
      [] label = "content-list" -> JObj([choices |-> Choice(JStr(DocContentList))])
      [] label = "content-object" -> JObj([choices |-> Choice(JStr(DocContentOne))])
      [] label = "content-wrapped" -> JObj([choices |-> Choice(JStr(DocContentWrapped))])
      [] label = "content-typed-wrapped" -> JObj([choices |-> Choice(JStr(DocContentBoth))])
      [] label = "content-text" -> JObj([choices |-> Choice(JStr("hello"))])
      [] label = "content-number" -> JObj([choices |-> Choice(JStr(DocNumber))])
      [] label = "content-blank" -> JObj([choices |-> Choice(JStr(" "))])
      [] label = "content-null" -> JObj([choices |-> Choice(JNull)])
      [] label = "choices-empty" -> JObj([choices |-> JList(<<>>)])
      [] label = "choices-string" -> JObj([choices |-> JStr("abc")])
      [] label = "message-string" ->
            JObj([choices |-> JList(<<JObj([message |-> JStr("hi")])>>)])
      [] label = "list" -> JList(<<MoveCmd>>)
      [] label = "string" -> JStr("hello")
      [] label = "number" -> JNum(7)
      [] label = "empty" -> JObj(EmptyDict)
      [] label = "null" -> JNull

DocValue(s) ==
    CASE s = DocPing -> JObj([op |-> JStr("ping")])
      [] s = DocPingTimes -> PingPayload(JNum(2))
      [] s = DocContentList ->
            JList(<<Cmd("wallet_sign", JStr(DocPing)), JNum(7)>>)
      [] s = DocContentOne -> Cmd("chain_execute", JObj(EmptyDict))
      [] s = DocContentWrapped ->
            JObj([commands |-> JList(<<JObj([type |-> JStr("move")])>>)])
      [] s = BodyCommands ->
            JObj([openmind_status |-> JNum(200),
                  openmind_response |-> JObj([commands |-> JList(<<
                      Cmd("chain_execute", PingPayload(JNum(2))),
                      Cmd("move", JObj([dir |-> JStr("forward")])),
                      JObj([type |-> JStr("wallet_send"),
                            payload |-> JObj([op |-> JStr("send")])]) >>)])])
      [] s = BodyChoices ->
            JObj([openmind_response |-> JObj([choices |-> JList(<<
                      JObj([message |-> JObj([content |-> JStr(DocContentList)])])
                  >>)])])
      [] s = BodyBadValues ->
            JObj([openmind_response |-> JObj([commands |-> JList(<<
                      Cmd("chain_execute", JStr("hello")),
                      Cmd("wallet_sign", JList(<<JNum(1)>>)),
                      JObj([type |-> JStr("chain_execute"), value |-> JNull,
                            payload |-> JObj([op |-> JStr("ping")])]) >>)])])
      [] s = BodyBadTimes ->
            JObj([openmind_response |-> JObj([commands |-> JList(<<
                      Cmd("chain_execute", PingPayload(JStr("abc"))) >>)])])
      [] s = BodyNoResponse ->
            JObj([openmind_status |-> JNum(200), openmind_response |-> JNull])
      [] s = BodyList -> JList(<<JNum(1)>>)
      [] s = DocNumber -> JNum(7)
      [] s = DocContentBoth ->
            JObj([type |-> JStr("move"),
                  commands |-> JList(<<JObj([type |-> JStr("wallet_send")])>>)])
      [] s \in ShapeBodies ->
            LET label == CHOOSE l \in ShapeLabels : s = ShapeBody(l)
            IN  JObj([openmind_response |-> ShapeResponse(label)])
      [] OTHER ->
            LET label == CHOOSE l \in TimesLabels : s = TimesBody(l)
            IN  JObj([openmind_response |-> JObj([commands |-> JList(<<
                      Cmd("chain_execute", TimesPayload(label)) >>)])])

JsonDocs == {DocPing, DocPingTimes, DocContentList, DocContentOne, DocContentWrapped,
             BodyCommands, BodyChoices, BodyBadValues, BodyBadTimes, BodyNoResponse, BodyList,
             DocNumber, DocContentBoth}
            \cup TimesBodies \cup ShapeBodies

\* json.loads(s): [ok, v], ok FALSE when it raises
JsonLoads(s) ==
    IF s \in JsonDocs
    THEN [ok |-> TRUE, v |-> DocValue(s)]
    ELSE [ok |-> FALSE, v |-> JNull]

TypedCommandsAll(l) == l

\* lines 124-126 and 146: the elements that are objects with a string type
RECURSIVE TypedCommands(_)
TypedCommands(l) ==
    IF l = <<>> THEN <<>>
    ELSE LET c == Head(l)
         IN  IF IsDict(c) /\ IsStr(Get(c, "type"))
             THEN <<c>> \o TypedCommands(Tail(l))
             ELSE TypedCommands(Tail(l))

\* lines 130-137: choices[0].message.content, None when anything raises
ContentOf(resp) ==
    LET choices == GetOr(resp, "choices", JList(<<JObj(EmptyDict)>>))
    IN  IF ~(IsList(choices) /\ choices.l # <<>>) THEN JNull
        ELSE LET first == choices.l[1]
             IN  IF ~IsDict(first) THEN JNull
                 ELSE LET message == GetOr(first, "message", JObj(EmptyDict))
                      IN  IF ~IsDict(message) THEN JNull
                          ELSE Get(message, "content")

\* _extract_commands(openmind_response)
ExtractCommands(resp) ==
    IF ~Truthy(resp) THEN <<>>
    ELSE IF ~IsDict(resp) THEN <<>>
    ELSE IF IsList(Get(resp, "commands")) THEN TypedCommands(Get(resp, "commands").l)
    ELSE LET content == ContentOf(resp)
         IN  IF ~(IsStr(content) /\ content.s \notin BlankStrings) THEN <<>>
             ELSE LET p == JsonLoads(content.s)
                  IN  IF ~p.ok THEN <<>>
                      ELSE IF IsList(p.v) THEN TypedCommands(p.v.l)
                      ELSE IF IsDict(p.v) /\ IsStr(Get(p.v, "type")) THEN <<p.v>>
                      ELSE IF IsDict(p.v) /\ IsList(Get(p.v, "commands"))
                      THEN TypedCommands(Get(p.v, "commands").l)
                      ELSE <<>>

HookIdle ==
    [pc |-> "idle", ts |-> NoHeader, sig |-> NoHeader, token |-> NoHeader,
     body |-> [utf8 |-> TRUE, text |-> ""],
     status |-> 0, detail |-> "", extracted |-> FALSE, cmds |-> <<>>, ci |-> 1,
     executed |-> <<>>, base |-> JNull, times |-> 0, i |-> 0, results |-> <<>>]

Responds(r, code, detail) ==
    hook' = [hook EXCEPT ![r].pc = "done", ![r].status = code, ![r].detail = detail]

VerifiedUnsigned(key, ts, sig, body) ==
    /\ key # ""
    /\ ~HeaderMissing(ts)
    /\ ~HeaderMissing(sig)
    /\ body.utf8

\* lines 204-220 let the request through
Verified(key, ts, sig, body) ==
    /\ key # ""
    /\ ~HeaderMissing(ts)
    /\ ~HeaderMissing(sig)
    /\ body.utf8
    /\ SafeEqual(HmacSha256Hex(key, SignedData(ts, body.text)), sig)

\* line 234
GatewayEnabled(flag) == flag

\* lines 204-235: a request is received and checked
HookExecute(r, ts, sig, body) ==
    /\ hook[r].pc = "idle"
    /\ LET h == [hook[r] EXCEPT !.ts = ts, !.sig = sig, !.body = body]
           done(code, detail) ==
               hook' = [hook EXCEPT ![r] =
                           [h EXCEPT !.pc = "done", !.status = code, !.detail = detail]]
       IN  IF secret = "" THEN done(500, "EXECUTOR_SHARED_SECRET is not set")
           ELSE IF HeaderMissing(ts) \/ HeaderMissing(sig)
           THEN done(401, "Missing signature headers.")
           ELSE IF ~body.utf8 THEN done(400, "Body must be UTF-8 JSON.")
           ELSE IF ~Verified(secret, ts, sig, body) THEN done(401, "Invalid signature.")
           ELSE IF ~JsonLoads(body.text).ok THEN done(400, "Invalid JSON body.")
           ELSE IF ~IsDict(JsonLoads(body.text).v)
           THEN \* payload.get raises AttributeError
                done(500, "Internal Server Error")
           ELSE IF GatewayEnabled(gateway)
           THEN hook' = [hook EXCEPT ![r] =
                    [h EXCEPT !.pc = "cmds", !.extracted = TRUE,
                              !.cmds = ExtractCommands(
                                  Get(JsonLoads(body.text).v, "openmind_response"))]]
           ELSE done(200, "accepted")
    /\ UNCHANGED <<config, wsVars, inflight, ncalls, faults>>

ChainTypes == {"chain_execute", "wallet_send", "wallet_sign"}

ForwardsAnyType(ctype) == TRUE

\* line 240
Forwards(ctype) == ctype \in ChainTypes

\* line 239: c.get("value", c.get("payload"))
CommandValue(c) == GetOr(c, "value", Get(c, "payload"))

\* lines 162-169: the payload of _execute_chain_command, [ok, v, error]
ChainPayload(value) ==
    LET p == IF IsStr(value) THEN JsonLoads(value.s) ELSE [ok |-> TRUE, v |-> value]
    IN  IF ~p.ok
        THEN [ok |-> FALSE, v |-> JNull,
              error |-> "chain_execute value must be JSON object or JSON string"]
        ELSE IF ~IsDict(p.v)
        THEN [ok |-> FALSE, v |-> JNull,
              error |-> "chain_execute payload must be an object"]
        ELSE [ok |-> TRUE, v |-> p.v, error |-> ""]

\* lines 236-247 and 162-175: the next command, up to the loop of its batch
HookCommand(r) ==
    /\ hook[r].pc = "cmds"
    /\ LET h == hook[r]
       IN  IF h.ci > Len(h.cmds)
           THEN Responds(r, 200, "accepted")
           ELSE LET c == h.cmds[h.ci]
                    p == ChainPayload(CommandValue(c))
                IN  IF ~Forwards(Get(c, "type").s)
                    THEN hook' = [hook EXCEPT ![r].ci = @ + 1]
                    ELSE IF ~p.ok
                    THEN hook' = [hook EXCEPT ![r].ci = @ + 1,
                                     ![r].executed = Append(@,
                                         [input |-> CommandValue(c),
                                          output |-> [ok |-> FALSE, error |-> p.error]])]
                    ELSE IF ~TimesOf(p.v).ok
                    THEN \* int(...) raises ValueError or TypeError
                         Responds(r, 500, "Internal Server Error")
                    ELSE hook' = [hook EXCEPT ![r].pc = "loop",
                                     ![r].base = Pop(p.v, "times"),
                                     ![r].times = Clamp(TimesOf(p.v).n),
                                     ![r].i = 0,
                                     ![r].results = <<>>]
    /\ UNCHANGED <<config, wsVars, inflight, ncalls, faults>>

\* lines 178-181: one more item, or the batch returns
HookLoop(r) ==
    /\ hook[r].pc = "loop"
    /\ LET h == hook[r]
       IN  IF h.i < h.times
           THEN /\ hook' = [hook EXCEPT ![r].pc = PcAfterStart]
                /\ CallStarts(r, h.base)
           ELSE /\ hook' = [hook EXCEPT ![r].pc = "cmds", ![r].ci = @ + 1,
                               ![r].executed = Append(@,
                                   [input |-> CommandValue(h.cmds[h.ci]),
                                    output |-> [ok |-> TRUE, times |-> h.times,
                                                results |-> h.results]])]
                /\ UNCHANGED <<inflight, ncalls>>
    /\ UNCHANGED <<config, wsVars, faults>>

\* lines 179-180: the call returns and its result is recorded
HookCallReturns(r) ==
    /\ hook[r].pc = "call"
    /\ \E res \in BackendResults :
          /\ CallReturns(r, res)
          /\ hook' = [hook EXCEPT ![r].pc = "loop", ![r].i = @ + 1,
                         ![r].results = Append(@,
                             [index |-> hook[r].i + 1, total |-> hook[r].times,
                              result |-> res])]
    /\ UNCHANGED <<config, wsVars, ncalls>>

\* chain_execute raises inside execute(): the request ends with a 500
HookCallRaises(r) ==
    /\ hook[r].pc = "call"
    /\ CallRaises(r)
    /\ Responds(r, 500, "Internal Server Error")
    /\ UNCHANGED <<config, wsVars, ncalls>>

HookStep(r) ==
    \/ HookCommand(r) \/ HookLoop(r) \/ HookCallReturns(r) \/ HookCallRaises(r)

(* POST /chain/execute: the local endpoint *)

\* lines 272-274: the token check lets the request through
LocalTokenOk(token) ==
    localToken = "" \/ (~HeaderMissing(token) /\ token = localToken)

\* lines 272-283: a request is received, checked and handed to chain_execute
ChainExecuteHttp(d, token, body) ==
    /\ hook[d].pc = "idle"
    /\ LET h == [hook[d] EXCEPT !.token = token, !.body = body]
           done(code, detail) ==
               /\ hook' = [hook EXCEPT ![d] =
                              [h EXCEPT !.pc = "done", !.status = code, !.detail = detail]]
               /\ UNCHANGED <<inflight, ncalls>>
       IN  IF ~LocalTokenOk(token) THEN done(401, "Invalid x-local-token.")
           ELSE IF ~body.utf8 \/ ~JsonLoads(body.text).ok
           THEN done(400, "Invalid JSON body.")
           ELSE IF ~IsDict(JsonLoads(body.text).v)
           THEN done(400, "Body must be a JSON object.")
           ELSE /\ hook' = [hook EXCEPT ![d] = [h EXCEPT !.pc = "direct"]]
                /\ CallStarts(d, JsonLoads(body.text).v)
    /\ UNCHANGED <<config, wsVars, faults>>

\* lines 283-284: the call returns and is answered as chain_result
ChainHttpReturns(d) ==
    /\ hook[d].pc = "direct"
    /\ \E res \in BackendResults :
          /\ CallReturns(d, res)
          /\ hook' = [hook EXCEPT ![d].pc = "done", ![d].status = 200,
                                  ![d].detail = "ok", ![d].results = <<res>>]
    /\ UNCHANGED <<config, wsVars, ncalls>>

\* chain_execute raises inside chain_execute_http: the request ends with a 500
ChainHttpRaises(d) ==
    /\ hook[d].pc = "direct"
    /\ CallRaises(d)
    /\ Responds(d, 500, "Internal Server Error")
    /\ UNCHANGED <<config, wsVars, ncalls>>

LocalTokens == {"", "t1"}
TokenHeaders == {NoHeader, "t1", "t2"}
DirectBodies ==
    [utf8 : {TRUE}, text : {DocPing, DocPingTimes, BodyList, BodyNotJson}]
    \cup {[utf8 |-> FALSE, text |-> ""]}

(* The gateway, or whoever posts to /execute *)

Timestamps == {NoHeader, "", "1700000000", "1700000001"}
Keys == {"k1", "k2"}
BodyTexts == {BodyCommands, BodyChoices, BodyBadValues, BodyBadTimes, BodyNoResponse,
              BodyList, BodyNotJson}
Bodies == [utf8 : {TRUE}, text : BodyTexts] \cup {[utf8 |-> FALSE, text |-> ""]}
Signatures ==
    {NoHeader, "", "deadbeef"} \cup
    {HmacSha256Hex(k, SignedData(t, b)) :
        k \in Keys, t \in Timestamps \ {NoHeader}, b \in BodyTexts}

----------------------------------------------------------------------------
Secrets == {"", "k1"}

\* lines 300-311: every session accepted and greeted; no request received yet
Init ==
    /\ secret \in Secrets
    /\ gateway \in BOOLEAN
    /\ omKey \in BOOLEAN
    /\ localToken = ""
    /\ wsPc = [s \in Sessions |-> "recv"]
    /\ pending = [s \in Sessions |-> JNull]
    /\ inbox = [s \in Sessions |-> <<>>]
    /\ connected = [s \in Sessions |-> TRUE]
    /\ nsent = [s \in Sessions |-> 0]
    /\ wsLoc = [s \in Sessions |-> NoLocals]
    /\ out = [s \in Sessions |-> <<>>]
    /\ conv = [s \in Sessions |-> Fresh]
    /\ hook = [r \in Posts |-> HookIdle]
    /\ inflight = [c \in Callers |-> <<>>]
    /\ ncalls = [c \in Callers |-> 0]
    /\ faults = 0

\* one session, every kind of message
NextSession ==
    \/ WsStep("s1")
    \/ \E m \in WsMessages : ClientSends("s1", m, MaxMsgs)
    \/ ClientLeaves("s1")

SpecSession == Init /\ [][NextSession]_vars

\* one request, every kind of request
NextHook ==
    \/ \E ts \in Timestamps, sig \in Signatures, body \in Bodies :
          HookExecute("r1", ts, sig, body)
    \/ HookStep("r1")

SpecHook == Init /\ [][NextHook]_vars


\* the backend has answered no call yet; in InitHealthy it answers every call
InitHealthy ==
    /\ secret \in Secrets
    /\ gateway \in BOOLEAN
    /\ omKey \in BOOLEAN
    /\ localToken = ""
    /\ wsPc = [s \in Sessions |-> "recv"]
    /\ pending = [s \in Sessions |-> JNull]
    /\ inbox = [s \in Sessions |-> <<>>]
    /\ connected = [s \in Sessions |-> TRUE]
    /\ nsent = [s \in Sessions |-> 0]
    /\ wsLoc = [s \in Sessions |-> NoLocals]
    /\ out = [s \in Sessions |-> <<>>]
    /\ conv = [s \in Sessions |-> Fresh]
    /\ hook = [r \in Posts |-> HookIdle]
    /\ inflight = [c \in Callers |-> <<>>]
    /\ ncalls = [c \in Callers |-> 0]
    /\ faults = MaxFaults

BatchMessages ==
    { <<"queren">>, UtterUsdc, UtterUsdc100, UtterUsdc9999, UtterEthZero, UtterEth50,
      UtterEth51 }

\* long batches against a backend that answers every call: a session's, or
\* else a request's
SessionOnly == hook["r1"].pc = "idle"
RequestOnly == nsent["s1"] = 0

NextBatch ==
    \/ SessionOnly /\ WsConfirm("s1")
    \/ SessionOnly /\ WsIntent("s1")
    \/ SessionOnly /\ WsSpeak("s1")
    \/ SessionOnly /\ WsLoop("s1")
    \/ SessionOnly /\ WsCallReturns("s1")
    \/ SessionOnly /\ \E m \in BatchMessages : ClientSends("s1", m, MaxMsgs)
    \/ RequestOnly /\ \E ts \in {"1700000000"}, text \in TimesBodies :
          HookExecute("r1", ts, HmacSha256Hex(secret, SignedData(ts, text)),
                      [utf8 |-> TRUE, text |-> text])
    \/ RequestOnly /\ HookCommand("r1")
    \/ RequestOnly /\ HookLoop("r1")
    \/ RequestOnly /\ HookCallReturns("r1")

SpecBatch == InitHealthy /\ [][NextBatch]_vars

PairMessages == { <<"queren">>, UtterEthTwice }

\* a configured executor with its gateway flag on
InitPair ==
    /\ Init
    /\ secret = "k1"
    /\ gateway
    /\ ~omKey

\* two sessions and a request of the gateway, interleaved
Next ==
    \/ \E s \in Sessions :
          \/ WsConfirm(s) \/ WsIntent(s) \/ WsSpeak(s)
          \/ WsLoop(s) \/ WsCallReturns(s) \/ WsCallRaises(s)
          \/ \E m \in PairMessages : ClientSends(s, m, MaxPairMsgs)
    \/ \E r \in Requests :
          \/ \E ts \in {"1700000000"}, text \in {BodyCommands} :
                HookExecute(r, ts, HmacSha256Hex(secret, SignedData(ts, text)),
                            [utf8 |-> TRUE, text |-> text])
          \/ HookStep(r)

Spec == InitPair /\ [][Next]_vars

ForwardMessages == { <<DocWsChain>>, UtterEthTwice, <<"queren">> }

\* a configured executor with its gateway flag on, its local token set or not
InitForward ==
    /\ secret = "k1"
    /\ gateway = TRUE
    /\ omKey = FALSE
    /\ localToken \in LocalTokens
    /\ wsPc = [s \in Sessions |-> "recv"]
    /\ pending = [s \in Sessions |-> JNull]
    /\ inbox = [s \in Sessions |-> <<>>]
    /\ connected = [s \in Sessions |-> TRUE]
    /\ nsent = [s \in Sessions |-> 0]
    /\ wsLoc = [s \in Sessions |-> NoLocals]
    /\ out = [s \in Sessions |-> <<>>]
    /\ conv = [s \in Sessions |-> Fresh]
    /\ hook = [r \in Posts |-> HookIdle]
    /\ inflight = [c \in Callers |-> <<>>]
    /\ ncalls = [c \in Callers |-> 0]
    /\ faults = 0

\* the paths that hand a payload to chain_execute, one caller at a time: a
\* session (chain_execute message, confirmed intent), a webhook request, a
\* request of the local endpoint
SessionTurn == hook["r1"].pc = "idle" /\ hook["d1"].pc = "idle"
RequestTurn == nsent["s1"] = 0 /\ hook["d1"].pc = "idle"
DirectTurn == nsent["s1"] = 0 /\ hook["r1"].pc = "idle"

NextForward ==
    \/ SessionTurn /\ WsChainExecute("s1")
    \/ SessionTurn /\ WsDirectReturns("s1")
    \/ SessionTurn /\ WsConfirm("s1")
    \/ SessionTurn /\ WsIntent("s1")
    \/ SessionTurn /\ WsSpeak("s1")
    \/ SessionTurn /\ WsLoop("s1")
    \/ SessionTurn /\ WsCallReturns("s1")
    \/ SessionTurn /\ WsCallRaises("s1")
    \/ SessionTurn /\ \E m \in ForwardMessages : ClientSends("s1", m, MaxMsgs)
    \/ RequestTurn /\ \E ts \in {"1700000000"}, text \in {BodyCommands} :
          HookExecute("r1", ts, HmacSha256Hex(secret, SignedData(ts, text)),
                      [utf8 |-> TRUE, text |-> text])
    \/ RequestTurn /\ HookCommand("r1")
    \/ RequestTurn /\ HookLoop("r1")
    \/ RequestTurn /\ HookCallReturns("r1")
    \/ RequestTurn /\ HookCallRaises("r1")
    \/ DirectTurn /\ \E token \in TokenHeaders, body \in DirectBodies :
          ChainExecuteHttp("d1", token, body)
    \/ DirectTurn /\ ChainHttpReturns("d1")
    \/ DirectTurn /\ ChainHttpRaises("d1")

SpecForward == InitForward /\ [][NextForward]_vars


\* two sessions side by side, each with its own intents, cancels and confirms
TwoMessages ==
    [s1 |-> { UtterUsdc, <<"queren">> },
     s2 |-> { UtterEthTwice, <<"quxiao">>, <<"queren">> }]

InitTwo ==
    /\ InitHealthy
    /\ secret = "k1"
    /\ gateway
    /\ ~omKey

NextTwo ==
    \E s \in Sessions :
        \/ WsCancel(s) \/ WsConfirm(s) \/ WsIntent(s) \/ WsSpeak(s)
        \/ WsLoop(s) \/ WsCallReturns(s)
        \/ \E m \in TwoMessages[s] : ClientSends(s, m, MaxMsgs)

SpecTwo == InitTwo /\ [][NextTwo]_vars

\* the parts of a transfer utterance: an address, an amount, a token word and a
\* repeat-count phrase
AddrPart == <<"0xA1">>
AmountPart == <<"0.5">>
TokenParts == { <<"USDC">>, <<"eth">> }
TimesPart == <<"zhuan", "2", "ci">>

RECURSIVE Flatten(_)
Flatten(parts) ==
    IF parts = <<>> THEN <<>> ELSE Head(parts) \o Flatten(Tail(parts))

\* the utterances that hold each part of S once, in every order
Orders(S) ==
    LET n == Cardinality(S)
    IN  { Flatten(f) : f \in { g \in [1..n -> S] : \A i, j \in 1..n : g[i] = g[j] => i = j } }

\* an address, an amount and a token word, with or without a repeat count
FullUtterances ==
    UNION { Orders({AddrPart, AmountPart, tok}) \cup
            Orders({AddrPart, AmountPart, tok, TimesPart}) : tok \in TokenParts }

\* an address and a token word, no amount
NoAmountUtterances ==
    UNION { Orders({AddrPart, tok}) \cup Orders({AddrPart, tok, <<"zhuan">>}) :
            tok \in TokenParts }

\* what is not a transfer: no address
NoAddressUtterances == { <<"zhuan", "0.5", "USDC">> }

ParseUtterances == FullUtterances \cup NoAmountUtterances \cup NoAddressUtterances

NextParse ==
    \/ WsIntent("s1")
    \/ WsSpeak("s1")
    \/ \E m \in ParseUtterances : ClientSends("s1", m, MaxPairMsgs)

\* one session hearing transfer utterances in every word order
SpecParse == InitTwo /\ [][NextParse]_vars

\* verified requests of the gateway with every shape of openmind_response
NextExtract ==
    \/ \E ts \in {"1700000000", "1700000001"},
          text \in ShapeBodies \cup {BodyCommands, BodyChoices, BodyBadValues} :
          HookExecute("r1", ts, HmacSha256Hex(secret, SignedData(ts, text)),
                      [utf8 |-> TRUE, text |-> text])
    \/ HookCommand("r1")
    \/ HookLoop("r1")
    \/ HookCallReturns("r1")

SpecExtract == InitTwo /\ [][NextExtract]_vars

----------------------------------------------------------------------------
(* Claims *)

\* this step is session s receiving the message at the head of its inbox
Handles(s) ==
    /\ wsPc[s] = "recv"
    /\ inbox[s] # <<>>
    /\ inbox'[s] = Tail(inbox[s])

\* the step leaves the backend alone and s back at receive_text (or gone)
CallsNothing(s) ==
    /\ inflight'[s] = inflight[s]
    /\ ncalls'[s] = 0
    /\ wsPc'[s] \in {"recv", "closed"}

\* C1: a confirm keyword received while the conversation holds no intent (fresh,
\* after a cancel, after a completed batch, after a clarification request)
\* starts no backend call.
C1_IdleConfirmCallsNothing ==
    [][\A s \in Sessions :
          (Handles(s) /\ IsConfirm(Msg(s)) /\ conv[s].state # "held") => CallsNothing(s)]_vars

\* a confirm was spoken back, not executed, after a batch had completed
C1_Witness ==
    /\ conv["s1"].state = "done"
    /\ out["s1"] = <<[type |-> "spoken", text |-> <<"queren">>]>>

\* C2: once a cancel keyword was processed while an intent was held, the pending
\* slot is empty, and it stays empty and every confirm keyword starts no backend
\* call until an utterance is recognized with a committed token.
C2_CancelDisarmsConfirm ==
    [][\A s \in Sessions :
          /\ (Handles(s) /\ IsCancel(Msg(s))) => pending'[s] = JNull
          /\ conv[s].state = "cancelled" =>
                /\ pending[s] = JNull
                /\ (Handles(s) /\ IsConfirm(Msg(s))) => CallsNothing(s)
                /\ pending'[s] # JNull =>
                      /\ Handles(s)
                      /\ IsTransfer(ParseCnTransfer(Msg(s)))
                      /\ pending'[s] = ParseCnTransfer(Msg(s))]_vars

\* an intent was held, cancelled, and the confirm that followed was spoken back
C2_Witness ==
    /\ conv["s1"].state = "cancelled"
    /\ conv["s1"].intent # JNull
    /\ pending["s1"] = JNull
    /\ out["s1"] = <<[type |-> "spoken", text |-> <<"queren">>]>>


\* the repeat count a payload asks for: its times field, 1 without one
Requested(payload) ==
    IF Get(payload, "times").t = "num" THEN Get(payload, "times").n ELSE 1

Expected(n) == Min(Max(n, 1), 50)

RECURSIVE SumTimes(_)
SumTimes(executed) ==
    IF executed = <<>> THEN 0
    ELSE (IF Head(executed).output.ok THEN Head(executed).output.times ELSE 0)
         + SumTimes(Tail(executed))

\* results k = 1..Len carry index k and total n
Indexed(results, n) ==
    \A k \in 1..Len(results) : results[k].index = k /\ results[k].total = n

ChainResults(events) == SelectSeq(events, LAMBDA e : e.type = "chain_result")

\* the events of s since its last message are those of a confirmed batch
InBatch(s) == out[s] # <<>> /\ out[s][1].type = "info"

\* C3: whatever repeat count is asked for (none, zero, negative, above 50), a
\* batch of a webhook command or of a session confirmation never makes more than
\* n = min(max(times, 1), 50) backend calls, no more than 50; a batch that
\* returns (the request answered 200, the session sending done) has made
\* exactly n, and its recorded results carry the indexes 1..n in order with
\* total n.
C3_BatchIsClamped ==
    /\ \A r \in Requests :
          LET h == hook[r]
          IN  /\ h.pc \in {"loop", "call"} =>
                    /\ h.times = Expected(Requested(ChainPayload(CommandValue(h.cmds[h.ci])).v))
                    /\ h.i + Len(inflight[r]) <= h.times
                    /\ Len(h.results) = h.i
                    /\ Indexed(h.results, h.times)
              /\ \A k \in 1..Len(h.executed) :
                    LET e == h.executed[k]
                    IN  e.output.ok =>
                           /\ e.output.times = Expected(Requested(ChainPayload(e.input).v))
                           /\ e.output.times <= 50
                           /\ Len(e.output.results) = e.output.times
                           /\ Indexed(e.output.results, e.output.times)
              /\ h.pc \in {"loop", "call"} =>
                    ncalls[r] = SumTimes(h.executed) + h.i + Len(inflight[r])
              /\ (h.pc = "done" /\ h.status = 200) =>
                    ncalls[r] = SumTimes(h.executed)
    /\ \A s \in Sessions :
          /\ wsPc[s] \in {"loop", "call"} =>
                /\ wsLoc[s].times = Expected(Requested(conv[s].intent))
                /\ wsLoc[s].times <= 50
                /\ ncalls[s] = wsLoc[s].i + Len(inflight[s])
                /\ ncalls[s] <= wsLoc[s].times
                /\ Len(ChainResults(out[s])) = wsLoc[s].i
                /\ Indexed(ChainResults(out[s]), wsLoc[s].times)
          /\ (InBatch(s) /\ out[s][Len(out[s])].type = "done") =>
                LET n == Expected(Requested(conv[s].intent))
                IN  /\ out[s][Len(out[s])].count = n
                    /\ out[s][Len(out[s])].results_count = n
                    /\ ncalls[s] = n
                    /\ Len(ChainResults(out[s])) = n
                    /\ Indexed(ChainResults(out[s]), n)

\* a command that asked for 100 repeats returned after 50 calls
C3_Witness ==
    /\ hook["r1"].pc = "done"
    /\ hook["r1"].body.text = TimesBody("100")
    /\ ncalls["r1"] = 50
    /\ Len(hook["r1"].executed[1].output.results) = 50

\* C4: a caller (a session, a webhook request) has at most one backend call in
\* flight: while its loop stands between two items, or between two commands, no
\* call of its own is under way, whatever the other callers are doing.
C4_OneCallInFlight ==
    /\ \A c \in Callers : Len(inflight[c]) <= 1
    /\ \A s \in Sessions : wsPc[s] \in {"loop", "recv"} => inflight[s] = <<>>
    /\ \A r \in Requests : hook[r].pc \in {"loop", "cmds", "done"} => inflight[r] = <<>>

\* both sessions and the request each await a call, s1 its second item
C4_Witness ==
    /\ wsPc["s1"] = "call" /\ wsLoc["s1"].i = 1
    /\ wsPc["s2"] = "call"
    /\ hook["r1"].pc = "call" /\ hook["r1"].i = 1

\* C5: a failing backend call (non-2xx, network error, non-JSON) leaves the rest
\* of its batch to run: a request or session has ended only with every item of
\* its batch attempted and recorded.
C5_FailedItemDoesNotAbort ==
    /\ \A r \in Requests :
          hook[r].pc = "done" => Len(hook[r].results) = hook[r].times
    /\ \A s \in Sessions :
          wsPc[s] = "crashed" => Len(wsLoc[s].results) = wsLoc[s].times

\* C6: a confirmed batch, once started, makes all its calls: a session has ended
\* (by a disconnect or by an exception) only with no batch left unfinished.
C6_BatchRunsToCompletion ==
    \A s \in Sessions :
        wsPc[s] \in {"closed", "crashed"} => wsLoc[s].i = wsLoc[s].times

\* C7: the pending slot holds nothing or the one intent recognized last; a
\* confirm starts a batch of that intent's payload (without its times), and every
\* call of the batch carries that payload: an intent it replaced is never sent.
C7_ConfirmExecutesLatestIntent ==
    [][\A s \in Sessions :
          /\ pending[s] = JNull \/ IsTransfer(pending[s])
          /\ conv[s].state = "held" => pending[s] = conv[s].intent
          /\ (wsPc[s] = "recv" /\ wsPc'[s] = "loop") =>
                /\ conv[s].state = "held"
                /\ wsLoc'[s].base = Pop(conv[s].intent, "times")
          /\ (wsPc[s] = "loop" /\ inflight'[s] # inflight[s]) =>
                inflight'[s] = <<Pop(conv[s].intent, "times")>>]_vars

\* the USDC intent was replaced by the ETH one, whose payload is being executed
C7_Witness ==
    /\ conv["s1"].replaced
    /\ wsPc["s1"] = "call"
    /\ inflight["s1"] = <<Pop(ParseCnTransfer(UtterEthTwice), "times")>>
    /\ inflight["s1"] # <<Pop(ParseCnTransfer(UtterUsdc), "times")>>

RejectDetails ==
    {"EXECUTOR_SHARED_SECRET is not set", "Missing signature headers.",
     "Body must be UTF-8 JSON.", "Invalid signature.", "Invalid JSON body."}

\* C8: commands are extracted and backend calls made for a request only when
\* the secret is set, both headers were sent and the signature is the HMAC of
\* the received timestamp, "." and body; a rejected request has made no call.
C8_NoWorkBeforeVerification ==
    \A r \in Requests :
        LET h == hook[r]
        IN  /\ (h.extracted \/ ncalls[r] > 0 \/ inflight[r] # <<>> \/ h.executed # <<>>) =>
                  /\ secret # ""
                  /\ h.ts \notin {NoHeader, ""}
                  /\ h.sig \notin {NoHeader, ""}
                  /\ h.body.utf8
                  /\ h.sig = HmacSha256Hex(secret, h.ts \o "." \o h.body.text)
            /\ (h.pc = "done" /\ h.detail \in RejectDetails) =>
                  /\ ncalls[r] = 0
                  /\ ~h.extracted
                  /\ h.status \in {400, 401, 500}

\* a verified request has had its commands extracted and a call made
C8_Witness ==
    /\ hook["r1"].extracted
    /\ ncalls["r1"] > 0
    /\ hook["r1"].body.text = BodyChoices

\* the outcome the claim gives a request
C9_Outcome(h) ==
    IF secret = "" THEN 500
    ELSE IF h.ts \in {NoHeader, ""} \/ h.sig \in {NoHeader, ""} THEN 401
    ELSE IF ~h.body.utf8 THEN 400
    ELSE IF h.sig # HmacSha256Hex(secret, h.ts \o "." \o h.body.text) THEN 401
    ELSE IF ~JsonLoads(h.body.text).ok THEN 400
    ELSE 200

\* C9: every request gets the one outcome of the first check it fails (500 secret
\* unset, 401 header missing, 400 not UTF-8, 401 signature mismatch, 400 not
\* JSON), and a verified request with a JSON body is accepted.
C9_OneOutcomePerRequest ==
    \A r \in Requests : hook[r].pc = "done" => hook[r].status = C9_Outcome(hook[r])

CountForwardable(cmds) ==
    Len(SelectSeq(cmds, LAMBDA c :
            Get(c, "type").s \in {"chain_execute", "wallet_send", "wallet_sign"}))

\* C10: with the gateway flag off a verified request extracts nothing and calls
\* nothing; with it on, a batch runs, and an output is recorded, only for a
\* command of type chain_execute, wallet_send or wallet_sign.
C10_FlagAndTypeGateForwarding ==
    \A r \in Requests :
        LET h == hook[r]
        IN  /\ ~gateway =>
                  /\ ncalls[r] = 0 /\ inflight[r] = <<>>
                  /\ h.executed = <<>> /\ ~h.extracted
            /\ h.pc \in {"loop", "call"} =>
                  Get(h.cmds[h.ci], "type").s
                      \in {"chain_execute", "wallet_send", "wallet_sign"}
            /\ h.pc \in {"cmds", "done"} /\ h.status \in {0, 200} =>
                  Len(h.executed) =
                      CountForwardable(SubSeq(h.cmds, 1, Min(h.ci - 1, Len(h.cmds))))

\* past a move command, the call of a wallet_send command is under way
C10_Witness ==
    /\ gateway
    /\ hook["r1"].pc = "call"
    /\ hook["r1"].ci = 3
    /\ Get(hook["r1"].cmds[2], "type").s = "move"
    /\ Get(hook["r1"].cmds[3], "type").s = "wallet_send"

\* the payload a request of the local endpoint was sent with
DirectPayload(h) == JsonLoads(h.body.text).v

\* C11: no payload on its way to the backend carries a times field, whichever
\* path forwards it (webhook command, POST /chain/execute, chain_execute message
\* of a session, confirmed intent), and it is the payload received less times.
C11_ForwardedWithoutTimes ==
    /\ \A c \in Callers : \A k \in 1..Len(inflight[c]) :
          "times" \notin DOMAIN inflight[c][k].o
    /\ \A d \in Directs :
          hook[d].pc = "direct" => inflight[d] = <<Pop(DirectPayload(hook[d]), "times")>>
    /\ \A r \in Requests :
          hook[r].pc = "call" =>
             inflight[r] =
                <<Pop(ChainPayload(CommandValue(hook[r].cmds[hook[r].ci])).v, "times")>>
    /\ \A s \in Sessions :
          wsPc[s] = "call" => inflight[s] = <<Pop(conv[s].intent, "times")>>

\* this step is one of session s itself: it takes a message, or moves its batch
OwnStep(s) == Handles(s) \/ wsPc[s] \in {"loop", "call"}

\* C12: with sessions interleaved, a session's pending intent is read and
\* written by that session alone: it changes only in a step of its own session,
\* a batch sends only the intent its own session recognized, and a confirm in a
\* session that holds no intent calls nothing whatever the others hold.
C12_PendingIsPerSession ==
    [][\A s \in Sessions :
          /\ pending'[s] # pending[s] => OwnStep(s)
          /\ (pending'[s] # pending[s] /\ pending'[s] # JNull) =>
                pending'[s] = ParseCnTransfer(Msg(s))
          /\ (wsPc[s] = "loop" /\ inflight'[s] # inflight[s]) =>
                inflight'[s] = <<Pop(conv[s].intent, "times")>>
          /\ (Handles(s) /\ IsConfirm(Msg(s)) /\ conv[s].state # "held") =>
                CallsNothing(s)]_vars

\* s2 has sent three messages (an intent and a cancel among them) and is
\* executing its own intent, while s1 still holds its own
C12_Witness ==
    /\ conv["s1"].state = "held"
    /\ pending["s1"] = ParseCnTransfer(UtterUsdc)
    /\ nsent["s2"] = 3
    /\ wsPc["s2"] = "call"
    /\ inflight["s2"] = <<Pop(ParseCnTransfer(UtterEthTwice), "times")>>

\* the events a confirmed batch of n items sends, as the claim orders them
BatchEvent(p, n) ==
    IF p = 1 THEN [type |-> "info", index |-> 0]
    ELSE IF p = 2 * n + 2 THEN [type |-> "done", index |-> n]
    ELSE IF p % 2 = 0 THEN [type |-> "progress", index |-> p \div 2]
    ELSE [type |-> "chain_result", index |-> (p - 1) \div 2]

\* event e is the p-th event of a batch of n items
IsBatchEvent(e, p, n) ==
    /\ e.type = BatchEvent(p, n).type
    /\ e.type \in {"progress", "chain_result"} =>
          e.index = BatchEvent(p, n).index /\ e.total = n
    /\ e.type = "info" => e.times = n
    /\ e.type = "done" => e.count = n /\ e.results_count = n

\* C13: the events of a confirmed batch of n items are info, then for i = 1..n
\* progress (i, n) and chain_result (i, n) in turn, then done: progress i is
\* the last event while call i is under way, chain_result i the last one
\* between call i and progress i + 1, done comes after chain_result n with the
\* pending intent cleared, and no batch is started again after a done batch
\* without a new intent.
C13_BatchEventsInOrder ==
    \A s \in Sessions :
        /\ InBatch(s) =>
              LET n == out[s][1].times
              IN  /\ Len(out[s]) <= 2 * n + 2
                  /\ \A p \in 1..Len(out[s]) : IsBatchEvent(out[s][p], p, n)
        /\ (InBatch(s) /\ wsPc[s] = "call") =>
              /\ Len(out[s]) = 2 * (wsLoc[s].i + 1)
              /\ ncalls[s] = wsLoc[s].i + 1
              /\ inflight[s] # <<>>
        /\ (InBatch(s) /\ wsPc[s] = "loop") =>
              /\ Len(out[s]) = 2 * wsLoc[s].i + 1
              /\ ncalls[s] = wsLoc[s].i
              /\ inflight[s] = <<>>
        /\ (InBatch(s) /\ out[s][Len(out[s])].type = "done") =>
              /\ pending[s] = JNull
              /\ wsPc[s] \in {"recv", "closed"}
              /\ ncalls[s] = out[s][1].times
        /\ (conv[s].state = "done" /\ InBatch(s) /\ wsPc[s] # "closed") =>
              out[s][Len(out[s])].type = "done"

\* a batch of two items has sent its six events
C13_Witness ==
    /\ Len(out["s1"]) = 6
    /\ out["s1"][1] = [type |-> "info", times |-> 2]
    /\ out["s1"][2] = [type |-> "progress", index |-> 1, total |-> 2]
    /\ out["s1"][3].type = "chain_result" /\ out["s1"][3].index = 1
    /\ out["s1"][4] = [type |-> "progress", index |-> 2, total |-> 2]
    /\ out["s1"][5].type = "chain_result" /\ out["s1"][5].index = 2
    /\ out["s1"][6] = [type |-> "done", count |-> 2, results_count |-> 2]

\* the request got past the checks of lines 204-220
PassedVerification(h) ==
    /\ h.pc # "idle"
    /\ ~(h.pc = "done" /\ h.detail \in RejectDetails \ {"Invalid JSON body."})

\* the HMAC of the timestamp, "." and the body as the request carried them
ExpectedSignature(h) == HmacSha256Hex(secret, h.ts \o "." \o h.body.text)

\* C14 as stated: for every secret, timestamp, body and signature, a request
\* passes verification if and only if its signature is the HMAC of its
\* timestamp, "." and its body.
C14_VerifiesIffSignatureMatches ==
    \A r \in Requests :
        hook[r].pc # "idle" =>
            (PassedVerification(hook[r]) <=> hook[r].sig = ExpectedSignature(hook[r]))

\* the secret is set and both headers were sent with a value
WellFormed(h) ==
    /\ secret # ""
    /\ h.ts \notin {NoHeader, ""}
    /\ h.sig \notin {NoHeader, ""}
    /\ h.body.utf8

\* C14 amended: with the secret set and both headers non-empty, a request
\* passes verification if and only if its signature is the HMAC of its
\* timestamp, "." and its body; a request without them never passes; and an
\* accepted request with its timestamp, its body or its signature changed to
\* another value would not pass.
C14_VerifiesIffSignedWellFormed ==
    \A r \in Requests :
        LET h == hook[r]
        IN  /\ (h.pc # "idle" /\ WellFormed(h)) =>
                  (PassedVerification(h) <=> h.sig = ExpectedSignature(h))
            /\ (h.pc # "idle" /\ ~WellFormed(h)) => ~PassedVerification(h)
            /\ PassedVerification(h) =>
                  /\ \A ts \in Timestamps \ {h.ts} :
                        ~Verified(secret, ts, h.sig, h.body)
                  /\ \A b \in Bodies \ {h.body} :
                        ~Verified(secret, h.ts, h.sig, b)
                  /\ \A sig \in Signatures \ {h.sig} :
                        ~Verified(secret, h.ts, sig, h.body)

\* a signature made with the right key for another timestamp was rejected
C14_Witness ==
    /\ hook["r1"].pc = "done"
    /\ hook["r1"].detail = "Invalid signature."
    /\ hook["r1"].ts = "1700000000"
    /\ hook["r1"].sig =
          HmacSha256Hex(secret, "1700000001" \o "." \o hook["r1"].body.text)

\* the first of a command's value and payload fields that is not null
FirstNonNull(c) ==
    IF Get(c, "value") # JNull THEN Get(c, "value") ELSE Get(c, "payload")

\* the extracted commands that are handed to execution, in order
Accepted(cmds) ==
    SelectSeq(cmds, LAMBDA c :
        Get(c, "type").s \in {"chain_execute", "wallet_send", "wallet_sign"})

\* C15: every executed command was executed with the first non-null of its
\* value and payload fields: with payload when value is absent or null.
C15_ValueIsFirstNonNull ==
    \A r \in Requests :
        \A k \in 1..Len(hook[r].executed) :
            hook[r].executed[k].input = FirstNonNull(Accepted(hook[r].cmds)[k])

\* the parse of utterance u names the address, the amount and the repeat count
\* that u holds
ParsedAsSaid(p, u) ==
    /\ IsTransfer(p)
    /\ Get(p, "to") = JStr("0xA1")
    /\ (IF Get(p, "type").s = "transfer_erc20"
         THEN Get(p, "amount") ELSE Get(p, "amount_eth")) = JStr("0.5")
    /\ Get(p, "times") = JNum(IF \E i \in 1..Len(u) : u[i] = "ci" THEN 2 ELSE 1)

\* C16: whatever the order of its parts, an utterance with one address, one
\* amount, a token word and possibly a repeat-count phrase is recognized with
\* that address, that amount and that repeat count.
C16_ParserIsOrderIndependent ==
    [][\A s \in Sessions :
          (Handles(s) /\ Msg(s) \in FullUtterances) =>
              ParsedAsSaid(pending'[s], Msg(s))]_vars

\* C17: an utterance with an address and a token word but no amount is not
\* recognized: it sets no pending intent and gets no confirm prompt.
C17_NoAmountNoIntent ==
    [][\A s \in Sessions :
          (Handles(s) /\ Msg(s) \in NoAmountUtterances) =>
              /\ pending'[s] = pending[s]
              /\ \A k \in 1..Len(out'[s]) : out'[s][k].type # "confirm"]_vars

\* C18: command extraction returns for every shape of openmind_response (the
\* verified request goes on to its commands, never to an error of extraction),
\* every element it returns is an object with a string type, and the shapes are
\* tried in a fixed order: a top-level commands array, filtered, wins over the
\* content string; else the content string is parsed, an array is filtered, an
\* object with a string type is wrapped as the one command, an object's
\* commands array is filtered; everything else gives the empty list.
IsCommand(c) == c.t = "obj" /\ "type" \in DOMAIN c.o /\ c.o["type"].t = "str"

Has(v, key) == v.t = "obj" /\ key \in DOMAIN v.o

ContentString(resp) ==
    IF ~Has(resp, "choices") THEN JNull
    ELSE LET ch == resp.o["choices"]
         IN  IF ~(ch.t = "list" /\ Len(ch.l) > 0 /\ Has(ch.l[1], "message")) THEN JNull
             ELSE LET m == ch.l[1].o["message"]
                  IN  IF Has(m, "content") /\ m.o["content"].t = "str"
                      THEN m.o["content"] ELSE JNull

ExpectedCommands(resp) ==
    IF Has(resp, "commands") /\ resp.o["commands"].t = "list"
    THEN SelectSeq(resp.o["commands"].l, IsCommand)
    ELSE IF resp.t # "obj" \/ DOMAIN resp.o = {} THEN <<>>
    ELSE LET content == ContentString(resp)
         IN  IF content = JNull \/ content.s \notin JsonDocs THEN <<>>
             ELSE LET parsed == DocValue(content.s)
                  IN  IF parsed.t = "list" THEN SelectSeq(parsed.l, IsCommand)
                      ELSE IF IsCommand(parsed) THEN <<parsed>>
                      ELSE IF Has(parsed, "commands") /\ parsed.o["commands"].t = "list"
                      THEN SelectSeq(parsed.o["commands"].l, IsCommand)
                      ELSE <<>>

ResponseOf(r) == DocValue(hook[r].body.text).o["openmind_response"]

C18_ExtractionByPrecedence ==
    \A r \in Requests :
        LET h == hook[r]
        IN  /\ (h.pc # "idle" /\ h.body.text \in ShapeBodies) => h.extracted
            /\ h.extracted =>
                  /\ \A k \in 1..Len(h.cmds) : IsCommand(h.cmds[k])
                  /\ h.cmds = ExpectedCommands(ResponseOf(r))

\* both shapes were present and the top-level array won; a typed object that also
\* had a commands array was wrapped whole; a mixed array lost its untyped elements
C18_Witness ==
    LET h == hook["r1"]
    IN  /\ h.extracted
        /\ \/ h.body.text = ShapeBody("both") /\ h.cmds = <<MoveCmd>>
           \/ h.body.text = ShapeBody("commands-mixed") /\ h.cmds = <<MoveCmd>>

\* the message is an utterance the parser recognizes with a committed token
Recognized(msg) ==
    /\ IsPlain(msg)
    /\ IsTransfer(ParseCnTransfer(msg))
    /\ ~NeedsToken(ParseCnTransfer(msg))

\* C19: the pending intent of a session changes only when a cancel keyword is
\* handled (to nothing), when the batch a confirm keyword started from it ends
\* (to nothing), or when an utterance is recognized with a committed token (to
\* that intent). Every other message leaves it as it was: a clarification
\* request received with nothing pending leaves nothing pending, and a confirm
\* keyword received while an intent is pending starts the batch of that intent.
C19_PendingChangesOnlyOnKeywordsAndIntents ==
    [][\A s \in Sessions :
          /\ pending'[s] # pending[s] =>
                \/ Handles(s) /\ IsCancel(Msg(s)) /\ pending'[s] = JNull
                \/ /\ wsPc[s] = "loop" /\ wsLoc[s].i = wsLoc[s].times
                   /\ wsLoc[s].base = Pop(pending[s], "times")
                   /\ pending'[s] = JNull
                \/ Handles(s) /\ Recognized(Msg(s)) /\ pending'[s] = ParseCnTransfer(Msg(s))
          /\ (Handles(s) /\ ~IsCancel(Msg(s)) /\ ~Recognized(Msg(s))) =>
                pending'[s] = pending[s]
          /\ (Handles(s) /\ IsConfirm(Msg(s)) /\ pending[s] # JNull /\ wsPc'[s] # "closed") =>
                /\ wsPc'[s] = "loop"
                /\ wsLoc'[s].base = Pop(pending[s], "times")]_vars

\* an utterance without a token was answered with a clarification request while
\* an intent was held, and the intent is still pending
C19_Witness ==
    /\ Len(out["s1"]) = 1
    /\ out["s1"][1].type = "need_more"
    /\ conv["s1"].state = "held"
    /\ pending["s1"] = ParseCnTransfer(UtterUsdc)

\* the step starts a backend call of the batch loop of s
BatchCallStarts(s) == wsPc[s] = "loop" /\ inflight'[s] # inflight[s]

\* C20: a backend call carries a payload of the free-text parser only inside a
\* batch, a batch is entered only by handling a confirm keyword while exactly
\* that payload (with its times) is the pending intent, and it keeps that
\* payload to its end; handling a recognized utterance starts no call; and the
\* batch empties the pending slot, so that a second batch needs a second
\* recognition.
C20_ParsedPayloadNeedsConfirm ==
    [][\A s \in Sessions :
          /\ (Handles(s) /\ Recognized(Msg(s))) =>
                /\ inflight'[s] = inflight[s]
                /\ wsPc'[s] \in {"recv", "closed"}
          /\ (wsPc[s] # "loop" /\ wsPc'[s] = "loop" /\ wsPc[s] # "call") =>
                /\ Handles(s)
                /\ IsConfirm(Msg(s))
                /\ conv[s].state = "held"
                /\ pending[s] = conv[s].intent
                /\ wsLoc'[s].base = Pop(pending[s], "times")
                /\ wsLoc'[s].i = 0
          /\ wsPc[s] \in {"loop", "call"} =>
                /\ wsLoc[s].base = Pop(pending[s], "times")
                /\ wsPc'[s] \in {"loop", "call"} =>
                      wsLoc'[s].base = wsLoc[s].base /\ pending'[s] = pending[s]
          /\ BatchCallStarts(s) => inflight'[s] = <<wsLoc[s].base>>
          /\ (inflight'[s] # inflight[s] /\ inflight'[s] # <<>> /\ ~BatchCallStarts(s)) =>
                /\ Handles(s)
                /\ IsWsJson(Msg(s), "chain_execute")
                /\ inflight'[s] = <<Get(WsJsonLoads(Msg(s)).v, "payload")>>
          /\ (wsPc[s] = "loop" /\ wsPc'[s] \in {"recv", "closed"} /\ wsLoc[s].i = wsLoc[s].times) =>
                pending'[s] = JNull]_vars

\* the second item of the confirmed ETH batch is in flight, carrying the parsed
\* payload without its times
C20_Witness ==
    /\ wsPc["s1"] = "call"
    /\ wsLoc["s1"].i = 1
    /\ pending["s1"] = ParseCnTransfer(UtterEthTwice)
    /\ inflight["s1"] = <<Pop(pending["s1"], "times")>>
    /\ out["s1"][1].type = "info"

\* the repeat count the confirm prompt of intent p announces (lines 440, 449)
Announced(p) == TimesOf(p).n

\* C21: the confirm prompt a session last sent announces the repeat count of the
\* intent it made pending, and the batch a confirm runs for a pending intent has
\* made, when its loop ends, exactly the announced number of backend calls,
\* also when the parsed count is above 50.
C21_AnnouncedCountIsExecuted ==
    \A s \in Sessions :
        /\ (out[s] # <<>> /\ out[s][1].type = "confirm") =>
              /\ out[s][1].payload = pending[s]
              /\ out[s][1].times = Announced(pending[s])
        /\ (wsPc[s] = "loop" /\ wsLoc[s].i = wsLoc[s].times) =>
              /\ wsLoc[s].base = Pop(pending[s], "times")
              /\ ncalls[s] = Announced(pending[s])

====
